---- MODULE Spec2Model ----
(***************************************************************************)
(* Model of the rate-based load tester, py-ai/load-test/run.py:            *)
(*   parse_uids_file - the pool of uids read from the uid file             *)
(*   main_async  - validation, output files, the one-second scheduler loop *)
(*   run_second  - one batch of concurrent requests (the dispatcher)       *)
(*   fetch_one   - one request and its mapping to (latency, status, error) *)
(*   summarize, pct - the latency statistics                               *)
(*                                                                         *)
(* Time is counted in units of 1/TicksPerSec second on one monotonic       *)
(* clock.  Latencies are whole numbers of units; the statistics are exact  *)
(* rationals [nan, num, den] in lowest terms (Python computes mean,        *)
(* median and variance exactly and rounds once to a float, a rounding the  *)
(* model leaves out).  float("nan") is the value NaN.                      *)
(***************************************************************************)
EXTENDS Integers, Sequences, FiniteSets, TLC

VARIABLES
    text,           \* the contents of the uid file, as a sequence of pieces
    uids,           \* main_async: the pool parse_uids_file returned
    batch_size,     \* args.batch_size
    duration_sec,   \* args.duration_sec
    max_connections, \* args.max_connections
    pc,             \* position of main_async
    exit_code,      \* process exit status, NotExited while running
    fs,             \* which of the output directory and files exist
    raw_rows,       \* rows written to the raw CSV, header first
    disk_rows,      \* rows of the raw CSV that have left the file buffer
    summary_file,   \* <<>> or <<the summary written to the summary file>>
    clock,          \* time.perf_counter(), in units
    started,        \* main_async: started
    deadline,       \* main_async: deadline
    sec_start,      \* main_async: sec_start
    chosen,         \* run_second: chosen
    done,           \* run_second: the tasks, one per chosen uid
    batch_results,  \* main_async: batch_results
    results,        \* main_async: results, the in-memory mirror
    issued,         \* number of requests issued so far (session.get calls)
    ticks,          \* number of passes of the loop that went on to a batch
    mode,           \* which function a stand-alone call exercises
    pct_values,     \* argument values of a stand-alone call of pct
    pct_p,          \* argument p of a stand-alone call of pct
    call_out,       \* <<>> or <<value returned by the stand-alone call>>
    n_rows,         \* process_csv: number of rows of the input CSV
    max_rows,       \* process_csv: max_rows
    row_idx,        \* process_csv: row_idx
    answer,         \* process_csv: answer
    jsonl_file,     \* process_csv: the records written to the JSONL file
    max_retries,    \* call_openai_with_retry: max_retries
    attempt,        \* call_openai_with_retry: attempt
    api_calls,      \* API attempts made by the current call
    sleeps,         \* the backoffs slept by the current call, in tenths
    sleep_seconds,  \* call_openai_with_retry: sleep_seconds, in tenths
    last_error,     \* the exception of the latest failed attempt
    num_datetimes,  \* generate_random_datetimes: num_datetimes
    num_times_per_day, \* generate_random_datetimes: num_times_per_day
    datetimes,      \* generate_random_datetimes: datetimes
    current_datetime, \* generate_random_datetimes: current_datetime, its day
    days_done       \* generate_random_datetimes: passes of the outer loop

\* state of process_csv and call_openai_with_retry
csvVars == <<n_rows, max_rows, row_idx, answer, jsonl_file, max_retries,
             attempt, api_calls, sleeps, sleep_seconds, last_error>>

\* state of generate_random_datetimes
genVars == <<num_datetimes, num_times_per_day, datetimes, current_datetime,
             days_done>>

otherVars == <<csvVars, genVars>>

vars == <<text, uids, batch_size, duration_sec, max_connections, pc,
          exit_code, fs, raw_rows, disk_rows, summary_file, clock, started,
          deadline, sec_start, chosen, done, batch_results, results, issued,
          ticks, mode, pct_values, pct_p, call_out, otherVars>>

\* what the run is given; nothing assigns to it after startup
args == <<text, uids, batch_size, duration_sec, max_connections>>

runVars == <<args, pc, exit_code, fs, raw_rows, disk_rows, summary_file, clock,
             started, deadline, sec_start, chosen, done, batch_results, issued,
             ticks>>

-----------------------------------------------------------------------------
(* Bounds of the model *)

MaxBatch == 2        \* largest --batch-size tried
MaxDuration == 3     \* largest --duration-sec tried
MaxRequests == 4     \* largest --batch-size times --duration-sec tried
TicksPerSec == 2     \* clock units per second
RequestTimeout == 3  \* --request-timeout-sec, in clock units
MaxLat == 3          \* largest latency of a stand-alone statistics input
MaxLen == 5          \* longest list given to a stand-alone pct
MaxResults == 3      \* longest outcome list given to a stand-alone summarize
MaxConnections == 1  \* largest --max-connections tried
MaxText == 5         \* longest uid file tried, in pieces
MaxRows == 2         \* most rows of an input CSV tried
MaxRetries == 5      \* largest max_retries tried
TenthsPerSec == 10   \* units of backoff time per second
MaxN == 4            \* largest num_datetimes tried
MaxK == 3            \* largest num_times_per_day tried

NotExited == -1

-----------------------------------------------------------------------------
(* Numbers *)

\* F applied to the value of v: v is evaluated once, however often F uses it
Apply(F(_), v) == CHOOSE r \in {F(w) : w \in {v}} : TRUE

Max2(a, b) == IF a >= b THEN a ELSE b
Abs(a) == IF a < 0 THEN -a ELSE a

RECURSIVE Gcd(_, _)
Gcd(a, b) == IF b = 0 THEN a ELSE Gcd(b, a % b)

NaN == [nan |-> TRUE, num |-> 0, den |-> 1]

\* the rational n / d, d > 0, in lowest terms
Rat(n, d) ==
    LET Reduced(nv) ==
            LET g == Gcd(Abs(nv), d)
            IN  [nan |-> FALSE, num |-> nv \div g, den |-> d \div g]
    IN  Apply(Reduced, n)

Num(n) == Rat(n, 1)

\* round(a / b) of Python 3: to the nearest integer, a tie to the even one.
RoundHalfEven(a, b) ==
    LET q == a \div b
        r == a % b
    IN  IF 2 * r < b THEN q
        ELSE IF 2 * r > b THEN q + 1
        ELSE IF q % 2 = 0 THEN q ELSE q + 1

CeilDiv(a, b) == (a + b - 1) \div b

RECURSIVE SumUpTo(_, _)
SumUpTo(x, n) == IF n = 0 THEN 0 ELSE x[n] + SumUpTo(x, n - 1)

SumSeq(x) == SumUpTo(x, Len(x))

RECURSIVE SumSqUpTo(_, _)
SumSqUpTo(x, n) == IF n = 0 THEN 0 ELSE x[n] * x[n] + SumSqUpTo(x, n - 1)

SumSq(x) == SumSqUpTo(x, Len(x))

Range(s) == {s[i] : i \in DOMAIN s}

IsSorted(x) == \A i \in 1..(Len(x) - 1) : x[i] <= x[i + 1]

MinOf(x) == CHOOSE m \in Range(x) : \A v \in Range(x) : m <= v
MaxOf(x) == CHOOSE m \in Range(x) : \A v \in Range(x) : m >= v

-----------------------------------------------------------------------------
(* Sorting *)

\* The number of elements that a stable ascending sort puts before vals[i]:
\* the smaller ones, and the equal ones that come earlier.
Before(vals, i) ==
    Cardinality({j \in DOMAIN vals :
                    vals[j] < vals[i] \/ (vals[j] = vals[i] /\ j < i)})

\* sorted(range(len(values)), key=lambda i: values[i]), indices from 1:
\* sorted() is stable, so rank k holds the index with k - 1 elements before it
ArgSort(vals) ==
    [k \in 1..Len(vals) |-> CHOOSE i \in DOMAIN vals : Before(vals, i) = k - 1]

\* sorted(x)
Sorted(x) ==
    LET Permuted(perm) == [k \in 1..Len(x) |-> x[perm[k]]]
    IN  Apply(Permuted, [k \in 1..Len(x) |-> ArgSort(x)[k]])

-----------------------------------------------------------------------------
(* statistics.mean, median, variance: StatisticsError stands for the raise *)

StatisticsError == [nan |-> FALSE, num |-> 0, den |-> 0]

mean(x) == IF x = <<>> THEN StatisticsError ELSE Rat(SumSeq(x), Len(x))

median(x) ==
    IF x = <<>> THEN StatisticsError
    ELSE LET s == Sorted(x)
             n == Len(x)
         IN  IF n % 2 = 1 THEN Num(s[(n + 1) \div 2])
             ELSE Rat(s[n \div 2] + s[n \div 2 + 1], 2)

\* sample variance: sum((v - mean)^2) / (n - 1)
variance(x) ==
    IF Len(x) < 2 THEN StatisticsError
    ELSE LET n == Len(x)
         IN  Rat(n * SumSq(x) - SumSeq(x) * SumSeq(x), n * (n - 1))

-----------------------------------------------------------------------------
(* pct and summarize *)

\* pct with the two end cases exchanged
pctSwappedEnds(x, pp) ==
    IF x = <<>> THEN NaN
    ELSE IF pp <= 0 THEN Num(x[Len(x)])
    ELSE IF pp >= 100 THEN Num(x[1])
    ELSE LET k == Max2(1, RoundHalfEven(pp * Len(x), 100))
             Value(i) == Num(x[i])
         IN  Apply(Value, ArgSort(x)[k])

pct(x, pp) ==
    IF x = <<>> THEN NaN
    ELSE IF pp <= 0 THEN Num(x[1])
    ELSE IF pp >= 100 THEN Num(x[Len(x)])
    ELSE LET k == Max2(1, RoundHalfEven(pp * Len(x), 100))
             Value(i) == Num(x[i])
         IN  Apply(Value, ArgSort(x)[k])

safe_mean(x) == LET m == mean(x) IN IF m = StatisticsError THEN NaN ELSE m

\* safe_var without the guard for fewer than two samples
safe_varNoGuard(x) ==
    LET v == variance(x)
    IN  IF v = StatisticsError THEN NaN ELSE v

safe_var(x) ==
    LET v == IF Len(x) < 2 THEN Num(0) ELSE variance(x)
    IN  IF v = StatisticsError THEN NaN ELSE v

safe_med(x) == LET m == median(x) IN IF m = StatisticsError THEN NaN ELSE m

safe_min(x) == IF x # <<>> THEN Num(MinOf(x)) ELSE NaN

safe_max(x) == IF x # <<>> THEN Num(MaxOf(x)) ELSE NaN

q(x, pp) ==
    LET Pct(s) == pct(s, pp)
    IN  IF x # <<>> THEN Apply(Pct, Sorted(x)) ELSE NaN

\* one latency block of the summary (stats_all, stats_ok)
LatencyStats(x) ==
    [count    |-> Len(x),
     mean     |-> safe_mean(x),
     median   |-> safe_med(x),
     variance |-> safe_var(x),
     min      |-> safe_min(x),
     p50      |-> q(x, 50),
     p90      |-> q(x, 90),
     p95      |-> q(x, 95),
     p99      |-> q(x, 99),
     max      |-> safe_max(x)]

\* the success test with the upper end included
IsOkUpTo400(r) == r.status # 0 /\ 200 <= r.status /\ r.status <= 400

\* r["status"] and 200 <= r["status"] < 400
IsOk(r) == r.status # 0 /\ 200 <= r.status /\ r.status < 400

Digits == <<"0", "1", "2", "3", "4", "5", "6", "7", "8", "9">>

\* str(n) of a non-negative integer
RECURSIVE IntToStr(_)
IntToStr(n) ==
    IF n < 10 THEN Digits[n + 1]
    ELSE IntToStr(n \div 10) \o Digits[(n % 10) + 1]

\* the histogram key without the "error" label
StatusKeyNoErrorLabel(r) == IntToStr(r.status)

\* key = str(r["status"]) if r["status"] else "error"
StatusKey(r) == IF r.status # 0 THEN IntToStr(r.status) ELSE "error"

\* the loop that fills status_counts: one key per label that occurs, its
\* value the number of outcomes with that label
StatusCounts(rs) ==
    [k \in {StatusKey(rs[i]) : i \in DOMAIN rs} |->
        Cardinality({i \in DOMAIN rs : StatusKey(rs[i]) = k})]

summarize(rs) ==
    LET lat_all == [i \in 1..Len(rs) |-> rs[i].latency_sec]
        lat_ok  == SelectSeq(rs, IsOk)
        lat_okv == [i \in 1..Len(lat_ok) |-> lat_ok[i].latency_sec]
        n_total == Len(rs)
        n_ok    == Len(lat_okv)
        n_err   == n_total - n_ok
    IN  [total_requests  |-> n_total,
         ok_requests     |-> n_ok,
         error_requests  |-> n_err,
         error_rate      |-> IF n_total # 0 THEN Rat(n_err, n_total) ELSE Num(0),
         status_counts   |-> StatusCounts(rs),
         latency_all     |-> Apply(LatencyStats, lat_all),
         latency_success |-> Apply(LatencyStats, lat_okv)]

-----------------------------------------------------------------------------
(* fetch_one: one request *)

\* What the endpoint and the transport can do to one request.  A response
\* carries an HTTP status; a raise carries the exception aiohttp raises.
\* str() of an exception is its message: asyncio.TimeoutError, which aiohttp
\* raises without arguments when the total timeout expires, has the message "".
TimeoutError == [cls |-> "asyncio.TimeoutError", msg |-> ""]
ClientConnectorError ==
    [cls |-> "aiohttp.ClientConnectorError", msg |-> "Cannot connect to host"]
NoExc == [cls |-> "", msg |-> ""]

HttpStatuses == {200, 503}

Events ==
    {[kind |-> "response", status |-> s, lat |-> 1, exc |-> NoExc] :
        s \in HttpStatuses}
    \cup {[kind |-> "raise", status |-> 0, lat |-> RequestTimeout,
           exc |-> TimeoutError],
          [kind |-> "raise", status |-> 0, lat |-> 1,
           exc |-> ClientConnectorError]}

\* classes that "except Exception" catches (subclasses of Exception)
ExceptionClasses == {"asyncio.TimeoutError", "aiohttp.ClientConnectorError"}

\* "except aiohttp.ClientError" in place of "except Exception"
IsCaughtClientErrorOnly(e) == e.cls = "aiohttp.ClientConnectorError"

IsCaught(e) == e.cls \in ExceptionClasses

Str(e) == e.msg

\* A task: its state, what fetch_one returned (lat, status, err), and kind,
\* which remembers what had happened to the request.
Pending ==
    [state |-> "pending", kind |-> "", lat |-> 0, status |-> 0, err |-> ""]

\* connections the connector has handed out and not got back
OpenConnections(dn) == Cardinality({i \in DOMAIN dn : dn[i].state = "open"})

\* aiohttp.TCPConnector(limit=limit) hands out a connection while fewer than
\* limit are out; limit = 0 is aiohttp's "no limit"
Available(dn, limit) == limit = 0 \/ OpenConnections(dn) < limit

\* the task of fetch_one once the event ev has happened to its request
fetch_one(ev) ==
    IF ev.kind = "response"
    THEN [state |-> "returned", kind |-> ev.kind, lat |-> ev.lat,
          status |-> ev.status, err |-> ""]
    ELSE IF IsCaught(ev.exc)
    THEN [state |-> "returned", kind |-> ev.kind, lat |-> ev.lat,
          status |-> 0, err |-> Str(ev.exc)]
    ELSE [state |-> "raised", kind |-> ev.kind, lat |-> ev.lat,
          status |-> 0, err |-> Str(ev.exc)]

-----------------------------------------------------------------------------
(* run_second: one batch *)

base_url == "https://jo1n.ir"

\* base_url.rstrip('/'), for the base URLs the model uses
RStripSlash(b) == IF b = "https://jo1n.ir/" THEN "https://jo1n.ir" ELSE b

Url(b, u) == RStripSlash(b) \o "/s/" \o u

\* [random.choice(uids) for _ in range(batch_size)]: every possible draw
Choices(u, n) == [1..n -> Range(u)]

\* run_second returning only the requests that got a response
RunSecondResultsResponsesOnly(ch, dn, now_iso) ==
    LET full == [i \in 1..Len(ch) |->
                   [ts_utc      |-> now_iso,
                    uid         |-> ch[i],
                    url         |-> Url(base_url, ch[i]),
                    latency_sec |-> dn[i].lat,
                    status      |-> dn[i].status,
                    error       |-> dn[i].err]]
        Responded(r) == r.status # 0
    IN  SelectSeq(full, Responded)

\* the loop pairing the uids with the results in the opposite order
RunSecondResultsReversed(ch, dn, now_iso) ==
    [i \in 1..Len(ch) |->
        [ts_utc      |-> now_iso,
         uid         |-> ch[i],
         url         |-> Url(base_url, ch[i]),
         latency_sec |-> dn[Len(ch) + 1 - i].lat,
         status      |-> dn[Len(ch) + 1 - i].status,
         error       |-> dn[Len(ch) + 1 - i].err]]

\* the loop over zip(chosen, urls, done)
RunSecondResults(ch, dn, now_iso) ==
    [i \in 1..Len(ch) |->
        [ts_utc      |-> now_iso,
         uid         |-> ch[i],
         url         |-> Url(base_url, ch[i]),
         latency_sec |-> dn[i].lat,
         status      |-> dn[i].status,
         error       |-> dn[i].err]]

RECURSIVE MaxLatency(_)
MaxLatency(dn) ==
    IF dn = <<>> THEN 0 ELSE Max2(Head(dn).lat, MaxLatency(Tail(dn)))

-----------------------------------------------------------------------------
(* parse_uids_file: the uid file *)

\* A uid file is a sequence of pieces: a comma, a newline, a blank, or a run
\* of other characters.
Comma == ","
Newline == "\n"
Blank == " "

\* the k-th smallest member of a set of integers
Kth(S, k) == CHOOSE i \in S : Cardinality({j \in S : j < i}) = k - 1

\* text.replace("\n", ",")
ReplaceNewline(t) ==
    [i \in DOMAIN t |-> IF t[i] = Newline THEN Comma ELSE t[i]]

\* t.split(","): the parts between the commas, empty parts included
Split(t) ==
    LET seps == {i \in DOMAIN t : t[i] = Comma}
        n == Cardinality(seps)
        cut(k) == IF k = 0 THEN 0
                  ELSE IF k = n + 1 THEN Len(t) + 1
                  ELSE Kth(seps, k)
    IN  [k \in 1..(n + 1) |-> SubSeq(t, cut(k - 1) + 1, cut(k) - 1)]

\* part.strip()
Strip(part) ==
    LET solid == {i \in DOMAIN part : part[i] # Blank}
    IN  IF solid = {} THEN <<>>
        ELSE SubSeq(part, Kth(solid, 1), Kth(solid, Cardinality(solid)))

\* the string a sequence of pieces spells
RECURSIVE Join(_)
Join(part) == IF part = <<>> THEN "" ELSE Head(part) \o Join(Tail(part))

\* the loop of lines 23-26: the stripped parts that are not empty
RawTokens(t) ==
    LET parts == Split(ReplaceNewline(t))
        stripped == [k \in DOMAIN parts |-> Join(Strip(parts[k]))]
        NonEmpty(tok) == tok # ""
    IN  SelectSeq(stripped, NonEmpty)

\* list(dict.fromkeys(raw)): the first occurrence of each token, in order
Dedupe(raw) ==
    LET first == {i \in DOMAIN raw : \A j \in 1..(i - 1) : raw[j] # raw[i]}
    IN  [k \in 1..Cardinality(first) |-> raw[Kth(first, k)]]

\* parse_uids_file returning raw itself
parse_uids_fileNoDedupe(t) == RawTokens(t)

parse_uids_file(t) == Dedupe(RawTokens(t))

-----------------------------------------------------------------------------
(* main_async *)

\* uid files: an empty one, one uid, two uids on a line each
FileInputs ==
    {<<>>, <<"abc123">>, <<"abc123", Newline, "def456", Newline>>}

PoolInputs == {<<>>, <<"abc123">>, <<"abc123", "def456">>}

\* the configuration checks without the one of --batch-size
ConfigErrorNoBatchCheck(u, b, d) == u = <<>> \/ d <= 0

ConfigError(u, b, d) == u = <<>> \/ b <= 0 \/ d <= 0

Header == <<"ts_utc", "uid", "url", "latency_sec", "status", "error">>

RECURSIVE Pad(_, _)
Pad(str, width) == IF Len(str) >= width THEN str ELSE Pad("0" \o str, width)

\* f"{latency_sec:.6f}" of a latency of lat clock units
Fmt6(lat) ==
    LET micros == RoundHalfEven(lat * 1000000, TicksPerSec)
    IN  IntToStr(micros \div 1000000) \o "." \o Pad(IntToStr(micros % 1000000), 6)

\* the row with uid and url in each other's column
RowUrlBeforeUid(r) ==
    <<r.ts_utc, r.url, r.uid, Fmt6(r.latency_sec), r.status, r.error>>

Row(r) == <<r.ts_utc, r.uid, r.url, Fmt6(r.latency_sec), r.status, r.error>>

Rows(rs) == [i \in 1..Len(rs) |-> Row(rs[i])]

\* the variables of the other programs of the repository, at rest
OtherProgramsIdle ==
    /\ n_rows = 0
    /\ max_rows = 0
    /\ row_idx = 0
    /\ answer = ""
    /\ jsonl_file = <<>>
    /\ max_retries = 0
    /\ attempt = 0
    /\ api_calls = 0
    /\ sleeps = <<>>
    /\ sleep_seconds = 0
    /\ last_error = ""
    /\ num_datetimes = 0
    /\ num_times_per_day = 0
    /\ datetimes = <<>>
    /\ current_datetime = 0
    /\ days_done = 0

Init ==
    /\ text \in FileInputs
    /\ uids \in PoolInputs
    /\ uids = parse_uids_file(text)
    /\ batch_size \in (-1)..MaxBatch
    /\ duration_sec \in (-1)..MaxDuration
    /\ max_connections \in 0..MaxConnections
    /\ batch_size * duration_sec <= MaxRequests
    /\ pc = "start"
    /\ exit_code = NotExited
    /\ fs = {}
    /\ raw_rows = <<>>
    /\ disk_rows = <<>>
    /\ OtherProgramsIdle
    /\ summary_file = <<>>
    /\ clock = 0
    /\ started = 0
    /\ deadline = 0
    /\ sec_start = 0
    /\ chosen = <<>>
    /\ done = <<>>
    /\ batch_results = <<>>
    /\ results = <<>>
    /\ issued = 0
    /\ ticks = 0
    /\ mode = "run"
    /\ pct_values = <<>>
    /\ pct_p = 0
    /\ call_out = <<>>

statsVars == <<mode, pct_values, pct_p, call_out>>

\* lines 160-166: the configuration checks, before anything is created
Validate ==
    /\ pc = "start"
    /\ IF ConfigError(uids, batch_size, duration_sec)
       THEN pc' = "failed" /\ exit_code' = 1
       ELSE pc' = "setup" /\ UNCHANGED exit_code
    /\ UNCHANGED <<args, disk_rows, fs, raw_rows, summary_file,
                   clock, started, deadline, sec_start, chosen, done,
                   batch_results, results, issued, ticks, statsVars, otherVars>>

\* lines 170-188 with the deadline at the start time itself
SetupDeadlineNow ==
    /\ pc = "setup"
    /\ fs' = fs \cup {"outdir", "raw_csv"}
    /\ raw_rows' = <<Header>>
    /\ started' = clock
    /\ deadline' = clock
    /\ pc' = "loop"
    /\ UNCHANGED <<args, disk_rows, exit_code, summary_file,
                   clock, sec_start, chosen, done, batch_results, results,
                   issued, ticks, statsVars, otherVars>>

\* lines 168-188: output directory, clock start, session, raw file and header
Setup ==
    /\ pc = "setup"
    /\ fs' = fs \cup {"outdir", "raw_csv"}
    /\ raw_rows' = <<Header>>
    /\ started' = clock
    /\ deadline' = clock + duration_sec * TicksPerSec
    /\ pc' = "loop"
    /\ UNCHANGED <<args, disk_rows, exit_code, summary_file,
                   clock, sec_start, chosen, done, batch_results, results,
                   issued, ticks, statsVars, otherVars>>

\* lines 191-195 leaving the loop only once the deadline is behind
LoopHeadPastDeadline ==
    /\ pc = "loop"
    /\ IF clock > deadline
       THEN /\ pc' = "summarize"
            /\ disk_rows' = raw_rows
            /\ UNCHANGED <<sec_start, ticks>>
       ELSE /\ pc' = "dispatch"
            /\ sec_start' = clock
            /\ ticks' = ticks + 1
            /\ UNCHANGED disk_rows
    /\ UNCHANGED <<args, exit_code, fs, raw_rows,
                   summary_file, clock, started, deadline, chosen, done,
                   batch_results, results, issued, statsVars, otherVars>>

\* lines 191-195: the head of the loop.  The break leaves the with-block of
\* the raw file, which closes the file and so empties its buffer.
LoopHead ==
    /\ pc = "loop"
    /\ IF clock >= deadline
       THEN /\ pc' = "summarize"
            /\ disk_rows' = raw_rows
            /\ UNCHANGED <<sec_start, ticks>>
       ELSE /\ pc' = "dispatch"
            /\ sec_start' = clock
            /\ ticks' = ticks + 1
            /\ UNCHANGED disk_rows
    /\ UNCHANGED <<args, exit_code, fs, raw_rows,
                   summary_file, clock, started, deadline, chosen, done,
                   batch_results, results, issued, statsVars, otherVars>>

\* run_second, lines 73-75: draw the uids, create one task per URL
Dispatch ==
    /\ pc = "dispatch"
    /\ \E c \in Choices(uids, batch_size) : chosen' = c
    /\ done' = [i \in 1..batch_size |-> Pending]
    /\ issued' = issued + batch_size
    /\ pc' = "gather"
    /\ UNCHANGED <<args, disk_rows, exit_code, fs, raw_rows,
                   summary_file, clock, started, deadline, sec_start,
                   batch_results, results, ticks, statsVars, otherVars>>

\* fetch_one, line 52: session.get gets task i a connection from the
\* connector of the session, when the connector has one to give
Connect ==
    /\ pc = "gather"
    /\ \E i \in DOMAIN done :
          /\ done[i].state = "pending"
          /\ Available(done, max_connections)
          /\ done' = [done EXCEPT ![i].state = "open"]
    /\ UNCHANGED <<args, disk_rows, pc, exit_code, fs, raw_rows, summary_file, clock,
                   started, deadline, sec_start, chosen, batch_results,
                   results, issued, ticks, statsVars, otherVars>>

\* fetch_one retrying: a request that raised is issued again
FetchOneRetrying ==
    /\ pc = "gather"
    /\ \E i \in DOMAIN done :
          \E ev \in Events :
              /\ done[i].state \in {"pending", "open"}
              /\ IF ev.kind = "raise" /\ issued < 2 * MaxRequests
                 THEN /\ done' = [done EXCEPT ![i] = Pending]
                      /\ issued' = issued + 1
                 ELSE /\ done' = [done EXCEPT ![i] = fetch_one(ev)]
                      /\ UNCHANGED issued
    /\ UNCHANGED <<args, disk_rows, pc, exit_code, fs, raw_rows, summary_file, clock,
                   started, deadline, sec_start, chosen, batch_results,
                   results, ticks, statsVars, otherVars>>

\* fetch_one under one timeout for the batch: the expiry ends every request
\* that is still running
FetchOneCancelsSiblings ==
    /\ pc = "gather"
    /\ \E i \in DOMAIN done :
          \E ev \in Events :
              /\ done[i].state \in {"pending", "open"}
              /\ IF ev.exc = TimeoutError
                 THEN done' = [j \in DOMAIN done |->
                                 IF done[j].state \in {"pending", "open"}
                                 THEN fetch_one(ev) ELSE done[j]]
                 ELSE done' = [done EXCEPT ![i] = fetch_one(ev)]
    /\ UNCHANGED <<args, disk_rows, pc, exit_code, fs, raw_rows, summary_file, clock,
                   started, deadline, sec_start, chosen, batch_results,
                   results, issued, ticks, statsVars, otherVars>>

\* fetch_one, lines 52-60: task i finishes, in any order among the tasks,
\* and its connection, if it has one, goes back to the connector.  A
\* response comes over a connection; the connection attempt fails when the
\* connector lets the task try; the total timeout runs from session.get on,
\* the wait for a connection included.
FetchOne ==
    /\ pc = "gather"
    /\ \E i \in DOMAIN done :
          \E ev \in Events :
              /\ \/ ev.kind = "response" /\ done[i].state = "open"
                 \/ ev.exc = ClientConnectorError
                        /\ done[i].state = "pending"
                        /\ Available(done, max_connections)
                 \/ ev.exc = TimeoutError
                        /\ done[i].state \in {"pending", "open"}
              /\ done' = [done EXCEPT ![i] = fetch_one(ev)]
    /\ UNCHANGED <<args, disk_rows, pc, exit_code, fs, raw_rows,
                   summary_file, clock, started, deadline, sec_start, chosen,
                   batch_results, results, issued, ticks, statsVars, otherVars>>

\* run_second returning as soon as one task has ended, the others still
\* running
GatherFirstCompleted ==
    /\ pc = "gather"
    /\ \E i \in DOMAIN done : done[i].state \in {"returned", "raised"}
    /\ clock' = clock + MaxLatency(done)
    /\ pc' = "record"
    /\ batch_results' = RunSecondResults(chosen, done, clock')
    /\ UNCHANGED <<args, disk_rows, exit_code, fs, raw_rows, summary_file,
                   started, deadline, sec_start, chosen, done, results,
                   issued, ticks, statsVars, otherVars>>

\* run_second, lines 76-88: gather returns the tasks' results in task order
\* once every task has ended, or re-raises what a task raised as soon as one
\* has, which ends main_async with a traceback
Gather ==
    /\ pc = "gather"
    /\ \/ \A i \in DOMAIN done : done[i].state \in {"returned", "raised"}
       \/ \E i \in DOMAIN done : done[i].state = "raised"
    /\ clock' = clock + MaxLatency(done)
    /\ IF \E i \in DOMAIN done : done[i].state = "raised"
       THEN /\ pc' = "aborted"
            /\ exit_code' = 1
            /\ disk_rows' = raw_rows
            /\ UNCHANGED batch_results
       ELSE /\ pc' = "record"
            /\ batch_results' = RunSecondResults(chosen, done, clock')
            /\ UNCHANGED <<exit_code, disk_rows>>
    /\ UNCHANGED <<args, fs, raw_rows, summary_file,
                   started, deadline, sec_start, chosen, done, results,
                   issued, ticks, statsVars, otherVars>>

\* lines 205-207 without the writerow loop
RecordMirrorOnly ==
    /\ pc = "record"
    /\ results' = results \o batch_results
    /\ pc' = "sleep"
    /\ UNCHANGED <<args, disk_rows, exit_code, fs, raw_rows, summary_file, clock, started,
                   deadline, sec_start, chosen, done, batch_results, issued,
                   ticks, statsVars, otherVars>>

\* lines 205-207: the batch's rows to the raw file, the batch to the mirror.
\* writerow hands each row to the file object, which is opened with the
\* default buffering and never flushed in the loop: the rows stay in its
\* buffer (8192 bytes, far more than the rows of the runs tried here).
Record ==
    /\ pc = "record"
    /\ raw_rows' = raw_rows \o Rows(batch_results)
    /\ results' = results \o batch_results
    /\ pc' = "sleep"
    /\ UNCHANGED <<args, disk_rows, exit_code, fs, summary_file,
                   clock, started, deadline, sec_start, chosen, done,
                   batch_results, issued, ticks, statsVars, otherVars>>

\* lines 210-211 without the sleep
SleepNoWait ==
    /\ pc = "sleep"
    /\ pc' = "loop"
    /\ UNCHANGED <<args, disk_rows, exit_code, fs, raw_rows, summary_file, clock, started,
                   deadline, sec_start, chosen, done, batch_results, results,
                   issued, ticks, statsVars, otherVars>>

\* lines 210-211 with asyncio.sleep(1.0)
SleepWholeSecond ==
    /\ pc = "sleep"
    /\ clock' = clock + TicksPerSec
    /\ pc' = "loop"
    /\ UNCHANGED <<args, disk_rows, exit_code, fs, raw_rows, summary_file, started,
                   deadline, sec_start, chosen, done, batch_results, results,
                   issued, ticks, statsVars, otherVars>>

\* lines 210-211 sleeping until the schedule's next whole second since the
\* start of the run, which makes up for earlier overruns
SleepCatchUp ==
    /\ pc = "sleep"
    /\ clock' = Max2(clock, started + ticks * TicksPerSec)
    /\ pc' = "loop"
    /\ UNCHANGED <<args, disk_rows, exit_code, fs, raw_rows, summary_file,
                   started, deadline, sec_start, chosen, done, batch_results,
                   results, issued, ticks, statsVars, otherVars>>

\* lines 210-211: sleep the rest of the second
Sleep ==
    /\ pc = "sleep"
    /\ LET elapsed == clock - sec_start
       IN  clock' = clock + Max2(0, TicksPerSec - elapsed)
    /\ pc' = "loop"
    /\ UNCHANGED <<args, disk_rows, exit_code, fs, raw_rows,
                   summary_file, started, deadline, sec_start, chosen, done,
                   batch_results, results, issued, ticks, statsVars, otherVars>>

\* lines 214-228: the summary and its file
Summarize ==
    /\ pc = "summarize"
    /\ LET total_time == clock - started
           Updated(summary) ==
               [duration_sec_requested |-> duration_sec,
                duration_sec_actual |-> Rat(total_time, TicksPerSec),
                batch_size_per_second |-> batch_size,
                requests_per_second_avg |->
                    IF total_time > 0
                    THEN Rat(summary.total_requests * TicksPerSec, total_time)
                    ELSE Num(0)] @@ summary
       IN  summary_file' = <<Apply(Updated, summarize(results))>>
    /\ fs' = fs \cup {"summary_json"}
    /\ pc' = "done"
    /\ exit_code' = 0
    /\ UNCHANGED <<args, disk_rows, raw_rows, clock, started,
                   deadline, sec_start, chosen, done, batch_results, results,
                   issued, ticks, statsVars, otherVars>>

Next ==
    \/ Validate
    \/ Setup
    \/ LoopHead
    \/ Dispatch
    \/ Connect
    \/ FetchOne
    \/ Gather
    \/ Record
    \/ Sleep
    \/ Summarize

Spec == Init /\ [][Next]_vars

\* The event loop runs every ready task and every request ends (at the latest
\* by its timeout), so no enabled step of the run waits forever.
FairSpec == Spec /\ WF_vars(Next)

\* the lists over S of length up to n
Lists(S, n) == UNION {[1..k -> S] : k \in 0..n}

-----------------------------------------------------------------------------
(* The run when writes to the raw file can fail and the run can be stopped *)

\* line 186: raw_path.open raises OSError, which nothing catches: it leaves
\* the session block and main_async, and asyncio.run ends the process with a
\* traceback and status 1
OpenFails ==
    /\ pc = "setup"
    /\ fs' = fs \cup {"outdir"}
    /\ pc' = "aborted"
    /\ exit_code' = 1
    /\ UNCHANGED <<args, disk_rows, raw_rows, summary_file, clock, started, deadline,
                   sec_start, chosen, done, batch_results, results, issued,
                   ticks, statsVars, otherVars>>

\* a failed append that the run does not notice
WriteFailsUnnoticed ==
    /\ pc = "record"
    /\ \E k \in 0..(Len(batch_results) - 1) :
          raw_rows' = raw_rows \o SubSeq(Rows(batch_results), 1, k)
    /\ results' = results \o batch_results
    /\ pc' = "sleep"
    /\ UNCHANGED <<args, disk_rows, exit_code, fs, summary_file, clock, started, deadline,
                   sec_start, chosen, done, batch_results, issued, ticks,
                   statsVars, otherVars>>

\* lines 205-206: writer.writerow raises OSError at row k + 1 of the batch;
\* line 207 is not reached, the exception leaves main_async as above
WriteFails ==
    /\ pc = "record"
    /\ \E k \in 0..(Len(batch_results) - 1) :
          raw_rows' = raw_rows \o SubSeq(Rows(batch_results), 1, k)
    /\ disk_rows' \in {disk_rows, raw_rows'}
    /\ pc' = "aborted"
    /\ exit_code' = 1
    /\ UNCHANGED <<args, fs, summary_file, clock, started, deadline, sec_start,
                   chosen, done, batch_results, results, issued, ticks,
                   statsVars, otherVars>>

Running == pc \in {"loop", "dispatch", "gather", "record", "sleep"}

\* Ctrl-C while main_async waits in gather (line 76) or in asyncio.sleep
\* (line 211): asyncio.run cancels the main task, CancelledError leaves the
\* two with-blocks, which closes the raw file, and main_async; nothing
\* catches it on the way, so lines 214-228 do not run and the process ends
\* on the KeyboardInterrupt
Interrupt ==
    /\ pc \in {"gather", "sleep"}
    /\ disk_rows' = raw_rows
    /\ pc' = "interrupted"
    /\ exit_code' = 130
    /\ UNCHANGED <<args, fs, raw_rows, summary_file, clock, started, deadline,
                   sec_start, chosen, done, batch_results, results, issued,
                   ticks, statsVars, otherVars>>

\* the process is killed (SIGKILL, power loss) while the loop runs: no
\* Python code runs any more, what the file buffer holds is lost
Kill ==
    /\ Running
    /\ pc' = "killed"
    /\ exit_code' = 137
    /\ UNCHANGED <<args, disk_rows, fs, raw_rows, summary_file, clock, started,
                   deadline, sec_start, chosen, done, batch_results, results,
                   issued, ticks, statsVars, otherVars>>

FaultNext ==
    \/ Next
    \/ OpenFails
    \/ WriteFails
    \/ Interrupt
    \/ Kill

FaultSpec == Init /\ [][FaultNext]_vars

-----------------------------------------------------------------------------
(* The run from the reading of the uid file on *)

Pieces == {"a", "b", Comma, Newline, Blank}

ParseInit ==
    /\ text \in Lists(Pieces, MaxText)
    /\ uids = <<>>
    /\ batch_size = 1
    /\ duration_sec = 1
    /\ max_connections = 1
    /\ pc = "read"
    /\ exit_code = NotExited
    /\ fs = {}
    /\ raw_rows = <<>>
    /\ disk_rows = <<>>
    /\ OtherProgramsIdle
    /\ summary_file = <<>>
    /\ clock = 0
    /\ started = 0
    /\ deadline = 0
    /\ sec_start = 0
    /\ chosen = <<>>
    /\ done = <<>>
    /\ batch_results = <<>>
    /\ results = <<>>
    /\ issued = 0
    /\ ticks = 0
    /\ mode = "run"
    /\ pct_values = <<>>
    /\ pct_p = 0
    /\ call_out = <<>>

\* line 160: uids = parse_uids_file(Path(args.uids_file))
ReadUids ==
    /\ pc = "read"
    /\ uids' = parse_uids_file(text)
    /\ pc' = "start"
    /\ UNCHANGED <<text, batch_size, duration_sec, max_connections, exit_code,
                   disk_rows,
                   fs, raw_rows, summary_file, clock, started, deadline,
                   sec_start, chosen, done, batch_results, results, issued,
                   ticks, statsVars, otherVars>>

ParseNext ==
    \/ ReadUids
    \/ Next

ParseSpec == ParseInit /\ [][ParseNext]_vars

-----------------------------------------------------------------------------
(* Stand-alone calls of pct and summarize on enumerated arguments *)

PInputs == {0, 50, 90, 95, 99, 100}

\* 0 (no response) and the statuses at the two ends of the success range
StatusInputs == {0, 199, 200, 399, 400}

OutcomeInputs ==
    {[ts_utc      |-> 0,
      uid         |-> "abc123",
      url         |-> Url(base_url, "abc123"),
      latency_sec |-> l,
      status      |-> s,
      error       |-> IF s = 0 THEN Str(ClientConnectorError) ELSE ""] :
        l \in 1..MaxLat, s \in StatusInputs}

StatsInit ==
    /\ text = <<"abc123">>
    /\ uids = <<"abc123">>
    /\ batch_size = 1
    /\ duration_sec = 1
    /\ max_connections = 1
    /\ pc = "call"
    /\ exit_code = NotExited
    /\ fs = {}
    /\ raw_rows = <<>>
    /\ disk_rows = <<>>
    /\ OtherProgramsIdle
    /\ summary_file = <<>>
    /\ clock = 0
    /\ started = 0
    /\ deadline = 0
    /\ sec_start = 0
    /\ chosen = <<>>
    /\ done = <<>>
    /\ batch_results = <<>>
    /\ issued = 0
    /\ ticks = 0
    /\ call_out = <<>>
    /\ \/ /\ mode = "pct"
          /\ pct_values \in Lists(1..MaxLat, MaxLen)
          /\ pct_p \in PInputs
          /\ results = <<>>
       \/ /\ mode = "summarize"
          /\ pct_values = <<>>
          /\ pct_p = 0
          /\ results \in Lists(OutcomeInputs, MaxResults)

CallPct ==
    /\ mode = "pct"
    /\ call_out = <<>>
    /\ call_out' = <<pct(pct_values, pct_p)>>
    /\ UNCHANGED <<runVars, results, mode, pct_values, pct_p, otherVars>>

CallSummarize ==
    /\ mode = "summarize"
    /\ call_out = <<>>
    /\ call_out' = <<summarize(results)>>
    /\ UNCHANGED <<runVars, results, mode, pct_values, pct_p, otherVars>>

StatsNext == CallPct \/ CallSummarize

StatsSpec == StatsInit /\ [][StatsNext]_vars

-----------------------------------------------------------------------------
(* py-ai/process_csv_openai.py: process_csv and call_openai_with_retry *)

\* every variable of the load tester, which these programs do not touch
loadTestVars == <<args, exit_code, fs, raw_rows, disk_rows, summary_file,
                  clock, started, deadline, sec_start, chosen, done,
                  batch_results, results, issued, ticks, pct_values, pct_p,
                  call_out>>

LoadTestIdle ==
    /\ text = <<>>
    /\ uids = <<>>
    /\ batch_size = 0
    /\ duration_sec = 0
    /\ max_connections = 0
    /\ exit_code = NotExited
    /\ fs = {}
    /\ raw_rows = <<>>
    /\ disk_rows = <<>>
    /\ summary_file = <<>>
    /\ clock = 0
    /\ started = 0
    /\ deadline = 0
    /\ sec_start = 0
    /\ chosen = <<>>
    /\ done = <<>>
    /\ batch_results = <<>>
    /\ results = <<>>
    /\ issued = 0
    /\ ticks = 0
    /\ pct_values = <<>>
    /\ pct_p = 0
    /\ call_out = <<>>

GenIdle ==
    /\ num_datetimes = 0
    /\ num_times_per_day = 0
    /\ datetimes = <<>>
    /\ current_datetime = 0
    /\ days_done = 0

\* line 334: the cap of the backoff, in seconds
BackoffCapSec == 30

Min2(a, b) == IF a <= b THEN a ELSE b

\* what one client.chat.completions.create call can do: answer with a text,
\* with an empty text, with no choices, or raise
ApiOutcomes ==
    {[kind |-> "content", content |-> c, msg |-> ""] :
        c \in {"answer", ""}}
    \cup {[kind |-> "no_choices", content |-> "", msg |-> ""]}
    \cup {[kind |-> "raise", content |-> "", msg |-> m] :
             m \in {"Rate limit reached", "Connection error."}}

\* random.uniform(0, 1), in tenths
Jitters == {0, TenthsPerSec - 1}

\* lines 326-327: resp.choices[0].message.content if resp and resp.choices
\* else "", then content or ""
Content(o) == IF o.kind = "content" THEN o.content ELSE ""

\* line 334: min(2 ** attempt + random.uniform(0, 1), 30), in tenths
SleepSeconds(att, jitter) ==
    Min2((2 ^ att) * TenthsPerSec + jitter, BackoffCapSec * TenthsPerSec)

\* f"ERROR: {e}"
ErrorAnswer(msg) == "ERROR: " \o msg

CsvInit ==
    /\ LoadTestIdle
    /\ GenIdle
    /\ mode = "process_csv"
    /\ pc = "csv_row"
    /\ n_rows \in 0..MaxRows
    /\ max_rows \in 0..MaxRows
    /\ max_retries \in 0..MaxRetries
    /\ row_idx = 0
    /\ answer = ""
    /\ jsonl_file = <<>>
    /\ attempt = 0
    /\ api_calls = 0
    /\ sleeps = <<>>
    /\ sleep_seconds = 0
    /\ last_error = ""

\* process_csv, lines 230-236 and 299: the next row of the reader, or the
\* end of the loop at the end of the file or past max_rows; line 262 starts
\* the call with attempt = 0
ProcessCsvNextRow ==
    /\ pc = "csv_row"
    /\ IF row_idx < n_rows /\ ~(max_rows # 0 /\ row_idx + 1 > max_rows)
       THEN /\ row_idx' = row_idx + 1
            /\ attempt' = 0
            /\ api_calls' = 0
            /\ sleeps' = <<>>
            /\ pc' = "csv_call"
       ELSE /\ pc' = "csv_done"
            /\ UNCHANGED <<row_idx, attempt, api_calls, sleeps>>
    /\ UNCHANGED <<n_rows, max_rows, answer, jsonl_file, max_retries,
                   sleep_seconds, last_error, genVars, loadTestVars, mode>>

\* one pass of the loop with the backoff slept also before the error is
\* raised again
call_openai_with_retrySleepsBeforeRaise ==
    /\ pc = "csv_call"
    /\ api_calls' = api_calls + 1
    /\ \E o \in ApiOutcomes :
          IF o.kind # "raise"
          THEN /\ answer' = Content(o)
               /\ pc' = "csv_write"
               /\ UNCHANGED <<attempt, sleeps, sleep_seconds, last_error>>
          ELSE /\ attempt' = attempt + 1
               /\ last_error' = o.msg
               /\ \E j \in Jitters :
                     sleep_seconds' = SleepSeconds(attempt', j)
               /\ sleeps' = Append(sleeps, sleep_seconds')
               /\ IF attempt' > max_retries
                  THEN /\ answer' = ErrorAnswer(o.msg)
                       /\ pc' = "csv_write"
                  ELSE /\ pc' = "csv_call"
                       /\ UNCHANGED answer
    /\ UNCHANGED <<n_rows, max_rows, row_idx, jsonl_file, max_retries,
                   genVars, loadTestVars, mode>>

\* call_openai_with_retry, lines 317-336: one pass of the while loop, one
\* API attempt.  An answer is returned; an exception counts as a failed
\* attempt and, while attempt <= max_retries, is followed by the backoff
\* and the next pass; after that it is raised again, and process_csv, lines
\* 263-265, makes the error the answer of the row.
call_openai_with_retry ==
    /\ pc = "csv_call"
    /\ api_calls' = api_calls + 1
    /\ \E o \in ApiOutcomes :
          IF o.kind # "raise"
          THEN /\ answer' = Content(o)
               /\ pc' = "csv_write"
               /\ UNCHANGED <<attempt, sleeps, sleep_seconds, last_error>>
          ELSE /\ attempt' = attempt + 1
               /\ last_error' = o.msg
               /\ IF attempt' > max_retries
                  THEN /\ answer' = ErrorAnswer(o.msg)
                       /\ pc' = "csv_write"
                       /\ UNCHANGED <<sleeps, sleep_seconds>>
                  ELSE /\ \E j \in Jitters :
                             sleep_seconds' = SleepSeconds(attempt', j)
                       /\ sleeps' = Append(sleeps, sleep_seconds')
                       /\ pc' = "csv_call"
                       /\ UNCHANGED answer
    /\ UNCHANGED <<n_rows, max_rows, row_idx, jsonl_file, max_retries,
                   genVars, loadTestVars, mode>>

\* process_csv, lines 268-297: the row's record to the JSONL file, flushed,
\* then the parsed CSV row and the grouped list
ProcessCsvWriteRecord ==
    /\ pc = "csv_write"
    /\ jsonl_file' = Append(jsonl_file,
                            [row_index |-> row_idx, openai_result |-> answer])
    /\ pc' = "csv_row"
    /\ UNCHANGED <<n_rows, max_rows, row_idx, answer, max_retries, attempt,
                   api_calls, sleeps, sleep_seconds, last_error, genVars,
                   loadTestVars, mode>>

CsvNext ==
    \/ ProcessCsvNextRow
    \/ call_openai_with_retry
    \/ ProcessCsvWriteRecord

CsvSpec == CsvInit /\ [][CsvNext]_vars

-----------------------------------------------------------------------------
(* gentime.py: generate_random_datetimes *)

\* A datetime is its number of seconds since 00:00:00 of the day of
\* start_datetime; current_datetime is kept as its day, for replace() sets
\* its time of day anew.

\* line 5: the defaults of start_hour and end_hour
start_hour == 8
end_hour == 22

CsvIdle ==
    /\ n_rows = 0
    /\ max_rows = 0
    /\ row_idx = 0
    /\ answer = ""
    /\ jsonl_file = <<>>
    /\ max_retries = 0
    /\ attempt = 0
    /\ api_calls = 0
    /\ sleeps = <<>>
    /\ sleep_seconds = 0
    /\ last_error = ""

\* lines 15-17: random.randint(start_hour, end_hour - 1), randint(0, 59),
\* randint(0, 59), each at either end of its range
RandomTimes ==
    {[hour |-> h, minute |-> m, second |-> sc] :
        h \in {start_hour, end_hour - 1}, m \in {0, 59}, sc \in {0, 59}}

\* line 20: current_datetime.replace(hour=..., minute=..., second=...,
\* microsecond=0)
Replace(day, t) == day * 86400 + t.hour * 3600 + t.minute * 60 + t.second

\* datetimes[:n]
Slice(x, n) == SubSeq(x, 1, Min2(Max2(n, 0), Len(x)))

GenInit ==
    /\ LoadTestIdle
    /\ CsvIdle
    /\ mode = "gentime"
    /\ pc = "gen_loop"
    /\ num_datetimes \in 0..MaxN
    /\ num_times_per_day \in 1..MaxK
    /\ datetimes = <<>>
    /\ current_datetime = 0
    /\ days_done = 0

\* lines 10-30: one pass of the outer loop, one day
GenerateDay ==
    /\ pc = "gen_loop"
    /\ days_done < num_datetimes \div num_times_per_day
    /\ \E times \in [1..num_times_per_day -> RandomTimes] :
          LET daily_datetimes ==
                  [i \in 1..num_times_per_day |->
                      Replace(current_datetime, times[i])]
          IN  datetimes' = datetimes \o Sorted(daily_datetimes)
    /\ current_datetime' = current_datetime + 1
    /\ days_done' = days_done + 1
    /\ UNCHANGED <<pc, num_datetimes, num_times_per_day, call_out, mode,
                   args, exit_code, fs, raw_rows, disk_rows, summary_file,
                   clock, started, deadline, sec_start, chosen, done,
                   batch_results, results, issued, ticks, pct_values, pct_p,
                   csvVars>>

\* line 32: return datetimes[:num_datetimes], once the outer loop has made
\* its num_datetimes // num_times_per_day passes
GenerateReturn ==
    /\ pc = "gen_loop"
    /\ days_done = num_datetimes \div num_times_per_day
    /\ call_out' = <<Slice(datetimes, num_datetimes)>>
    /\ pc' = "gen_done"
    /\ UNCHANGED <<genVars, mode,
                   args, exit_code, fs, raw_rows, disk_rows, summary_file,
                   clock, started, deadline, sec_start, chosen, done,
                   batch_results, results, issued, ticks, pct_values, pct_p,
                   csvVars>>

GenNext == GenerateDay \/ GenerateReturn

GenSpec == GenInit /\ [][GenNext]_vars

-----------------------------------------------------------------------------
(* Properties *)

InvalidConfig == uids = <<>> \/ batch_size <= 0 \/ duration_sec <= 0

\* C1: when run_second has returned, the batch holds exactly batch_size
\* outcomes and the uid of each is a member of the pool, whatever the
\* requests ended in.
C1_BatchHasNOutcomesFromPool ==
    pc = "record" =>
        /\ Len(batch_results) = batch_size
        /\ \A i \in DOMAIN batch_results : batch_results[i].uid \in Range(uids)

C1_Witness ==
    /\ pc = "record"
    /\ batch_size = 2
    /\ \E i, j \in DOMAIN batch_results :
          /\ batch_results[i].status = 200
          /\ batch_results[j].status = 0

\* C2: with an empty pool, a batch size <= 0 or a duration <= 0 the run ends
\* with a non-zero exit status, and no request is issued and neither the
\* output directory nor an output file is ever created.
C2_InvalidConfigFailsBeforeAnyOutput ==
    InvalidConfig =>
        /\ pc \in {"start", "failed"}
        /\ pc = "failed" => exit_code \notin {0, NotExited}
        /\ fs = {}
        /\ raw_rows = <<>>
        /\ summary_file = <<>>
        /\ issued = 0

C2_Witness ==
    /\ pc = "failed"
    /\ uids # <<>>
    /\ batch_size <= 0
    /\ duration_sec > 0

BatchHasFailure == \E i \in DOMAIN done : done[i].kind = "raise"

\* C3: a request that ends in a transport error or a timeout becomes an
\* outcome with status 0; the run is never aborted by it, its batch returns
\* all batch_size outcomes, the scheduler reaches the head of the loop again
\* and the run reaches the summary, which counts every recorded outcome.
C3_RequestFailureNotPropagated ==
    /\ [](pc # "aborted")
    /\ [](pc = "record" =>
            /\ Len(batch_results) = batch_size
            /\ \A i \in DOMAIN done :
                  done[i].kind = "raise" => batch_results[i].status = 0)
    /\ (pc = "record" /\ BatchHasFailure) ~> (pc = "loop")
    /\ (pc = "record" /\ BatchHasFailure) ~>
          (/\ pc = "done"
           /\ "summary_json" \in fs
           /\ summary_file[1].total_requests = Len(results))

C3_Witness ==
    /\ pc = "done"
    /\ batch_size = 2
    /\ Len(results) = 4
    /\ results[1].status = 0
    /\ results[2].status = 200
    /\ summary_file[1].total_requests = 4

\* C4: a request that got a response has status = the HTTP status and
\* error = ""; one that timed out or hit a transport error has status = 0 and
\* a non-empty error; so in every recorded outcome error = "" iff status # 0.
C4_StatusErrorMapping ==
    /\ \A i \in DOMAIN done :
          done[i].state = "returned" =>
              IF done[i].kind = "response"
              THEN done[i].status \in HttpStatuses /\ done[i].err = ""
              ELSE done[i].status = 0 /\ done[i].err # ""
    /\ \A i \in DOMAIN results :
          (results[i].error = "") <=> (results[i].status # 0)

PctCalled == mode = "pct" /\ call_out # <<>>

\* C5: for 0 < p < 100 and a non-empty ascending list of n values, pct
\* returns the value at the 1-based rank ceil(p/100 * n).
C5_NearestRankIsCeil ==
    (PctCalled /\ pct_values # <<>> /\ IsSorted(pct_values)
        /\ 0 < pct_p /\ pct_p < 100) =>
        call_out[1] = Num(pct_values[CeilDiv(pct_p * Len(pct_values), 100)])

\* C6 as claimed: pct(values, 0) = min(values) and pct(values, 100) =
\* max(values) for any non-empty list.
C6_EndsAreMinMaxOfAnyList ==
    (PctCalled /\ pct_values # <<>>) =>
        /\ pct_p = 0 => call_out[1] = Num(MinOf(pct_values))
        /\ pct_p = 100 => call_out[1] = Num(MaxOf(pct_values))

\* C6 as amended: pct(values, 0) = min(values) and pct(values, 100) =
\* max(values) for any non-empty list in ascending order.
C6_EndsAreMinMaxOfSortedList ==
    (PctCalled /\ pct_values # <<>> /\ IsSorted(pct_values)) =>
        /\ pct_p = 0 => call_out[1] = Num(MinOf(pct_values))
        /\ pct_p = 100 => call_out[1] = Num(MaxOf(pct_values))

C6_Witness ==
    /\ PctCalled
    /\ pct_p = 100
    /\ Len(pct_values) >= 3
    /\ IsSorted(pct_values)
    /\ pct_values[1] < pct_values[Len(pct_values)]
    /\ call_out[1] = Num(pct_values[Len(pct_values)])

SummarizeCalled == mode = "summarize" /\ call_out # <<>>

AllNaN(b) ==
    /\ b.mean = NaN
    /\ b.median = NaN
    /\ b.variance = NaN
    /\ b.min = NaN
    /\ b.max = NaN
    /\ b.p50 = NaN
    /\ b.p90 = NaN
    /\ b.p95 = NaN
    /\ b.p99 = NaN

\* C7: for an empty outcome list latency_all.count = 0 and every statistic
\* of the block is NaN, and so is every statistic of latency_success
\* whenever no outcome is a success.
C7_EmptyBlockIsAllNaN ==
    SummarizeCalled =>
        /\ results = <<>> =>
              call_out[1].latency_all.count = 0
              /\ AllNaN(call_out[1].latency_all)
        /\ (\A i \in DOMAIN results : ~IsOk(results[i])) =>
              call_out[1].latency_success.count = 0
              /\ AllNaN(call_out[1].latency_success)

AllEqual(b, v) ==
    /\ b.mean = Num(v)
    /\ b.median = Num(v)
    /\ b.min = Num(v)
    /\ b.max = Num(v)
    /\ b.p50 = Num(v)
    /\ b.p90 = Num(v)
    /\ b.p95 = Num(v)
    /\ b.p99 = Num(v)

OkIndices == {i \in DOMAIN results : IsOk(results[i])}

\* C8: a latency block over exactly one value v (one outcome in all, or
\* exactly one success) has variance 0, not NaN, and mean, median, min, max
\* and the four percentiles all equal to v.
C8_SingleValueBlock ==
    SummarizeCalled =>
        /\ Len(results) = 1 =>
              /\ call_out[1].latency_all.count = 1
              /\ call_out[1].latency_all.variance = Num(0)
              /\ AllEqual(call_out[1].latency_all, results[1].latency_sec)
        /\ Cardinality(OkIndices) = 1 =>
              /\ call_out[1].latency_success.count = 1
              /\ call_out[1].latency_success.variance = Num(0)
              /\ \A i \in OkIndices :
                    AllEqual(call_out[1].latency_success, results[i].latency_sec)

C8_Witness ==
    /\ SummarizeCalled
    /\ Len(results) = 1
    /\ IsOk(results[1])
    /\ results[1].latency_sec = 2
    /\ call_out[1].latency_success.variance = Num(0)

\* C9: when every request of a finished run failed (status 0), the summary
\* has error_requests = total_requests, the status histogram is exactly
\* {"error": total_requests}, and latency_success has count 0 with every
\* statistic NaN.
C9_AllRequestsFailed ==
    (/\ pc = "done"
     /\ results # <<>>
     /\ \A i \in DOMAIN results : results[i].status = 0) =>
        /\ summary_file[1].error_requests = summary_file[1].total_requests
        /\ summary_file[1].total_requests = Len(results)
        /\ summary_file[1].status_counts = [k \in {"error"} |-> Len(results)]
        /\ summary_file[1].latency_success.count = 0
        /\ AllNaN(summary_file[1].latency_success)

SuccessIndices == {i \in DOMAIN results : results[i].status \in 200..399}

\* C11: an outcome counts as a success exactly when its status is not 0 and
\* 200 <= status < 400; ok_requests is the number of successes,
\* error_requests = total_requests - ok_requests is the number of outcomes
\* with status 0, 1xx, 4xx or 5xx, latency_all.count = total_requests,
\* latency_success.count = ok_requests, and error_rate is
\* error_requests / total_requests, 0 when there is no outcome.
C11_SuccessCounting ==
    SummarizeCalled =>
        /\ call_out[1].total_requests = Len(results)
        /\ call_out[1].ok_requests = Cardinality(SuccessIndices)
        /\ call_out[1].error_requests =
              call_out[1].total_requests - call_out[1].ok_requests
        /\ call_out[1].error_requests =
              Cardinality({i \in DOMAIN results :
                              \/ results[i].status = 0
                              \/ results[i].status \in 100..199
                              \/ results[i].status \in 400..599})
        /\ call_out[1].latency_all.count = call_out[1].total_requests
        /\ call_out[1].latency_success.count = call_out[1].ok_requests
        /\ call_out[1].error_rate =
              IF Len(results) = 0 THEN Num(0)
              ELSE Rat(call_out[1].error_requests, call_out[1].total_requests)

C11_Witness ==
    /\ SummarizeCalled
    /\ Len(results) = 3
    /\ results[1].status = 399
    /\ results[2].status = 400
    /\ results[3].status = 0
    /\ call_out[1].ok_requests = 1
    /\ call_out[1].error_rate = Rat(2, 3)

\* the sum of the counts of a histogram
RECURSIVE SumCounts(_)
SumCounts(h) ==
    IF DOMAIN h = {} THEN 0
    ELSE LET k == CHOOSE l \in DOMAIN h : TRUE
         IN  h[k] + SumCounts([l \in DOMAIN h \ {k} |-> h[l]])

\* C12: the status histogram has one label per status that occurs, the
\* decimal status for a nonzero status and "error" for status 0, each with
\* the number of outcomes of that status; the counts sum to total_requests,
\* and the "error" count is the number of status-0 outcomes, all of which
\* are among the error_requests.
C12_StatusHistogram ==
    SummarizeCalled =>
        LET h == call_out[1].status_counts
            Failed == {i \in DOMAIN results : results[i].status = 0}
        IN  /\ \A i \in DOMAIN results :
                  LET label == IF results[i].status = 0 THEN "error"
                               ELSE IntToStr(results[i].status)
                  IN  /\ label \in DOMAIN h
                      /\ h[label] =
                            Cardinality({j \in DOMAIN results :
                                            results[j].status = results[i].status})
            /\ \A l \in DOMAIN h : h[l] > 0
            /\ SumCounts(h) = call_out[1].total_requests
            /\ ("error" \in DOMAIN h) <=> (Failed # {})
            /\ Failed # {} => h["error"] = Cardinality(Failed)
            /\ Cardinality(Failed) <= call_out[1].error_requests
            /\ Failed \cap SuccessIndices = {}

C12_Witness ==
    /\ SummarizeCalled
    /\ Len(results) = 3
    /\ results[1].status = 0
    /\ results[2].status = 200
    /\ results[3].status = 0
    /\ call_out[1].status_counts = ("error" :> 2) @@ ("200" :> 1)

Finished(t) == t.state \in {"returned", "raised"}

\* scenario A so far: the two-uid pool, batches of 2 for 1 second, and every
\* answer up to now a 200 that came within the first clock unit of its
\* request (the model's shortest response time, well inside the second)
ScenarioA ==
    /\ uids = <<"abc123", "def456">>
    /\ batch_size = 2
    /\ duration_sec = 1
    /\ \A i \in DOMAIN done :
          Finished(done[i]) => done[i].status = 200 /\ done[i].lat = 1
    /\ \A i \in DOMAIN results :
          results[i].status = 200 /\ results[i].latency_sec = 1

\* C13: in scenario A at most one batch is ever dispatched, the run reaches
\* its end, and there exactly one batch has been dispatched and the summary
\* reports total_requests = 2, error_requests = 0 and
\* latency_success.count = 2.
C13_ScenarioA ==
    /\ [](ScenarioA => ticks <= 1 /\ issued <= 2)
    /\ []((ScenarioA /\ pc = "done") =>
            /\ ticks = 1
            /\ issued = 2
            /\ summary_file[1].total_requests = 2
            /\ summary_file[1].error_requests = 0
            /\ summary_file[1].latency_success.count = 2)
    /\ (ScenarioA /\ pc = "start") ~> (pc = "done" \/ ~ScenarioA)

C13_Witness ==
    /\ ScenarioA
    /\ pc = "done"
    /\ ticks = 1
    /\ summary_file[1].total_requests = 2
    /\ summary_file[1].latency_success.count = 2

\* the time batch k took: the longest latency among its outcomes
BatchTime(k) ==
    LET lats == {results[i].latency_sec :
                    i \in ((k - 1) * batch_size + 1)..(k * batch_size)}
    IN  CHOOSE l \in lats : \A m \in lats : m <= l

\* the time by which batch k overran its second
Overrun(k) == Max2(0, BatchTime(k) - TicksPerSec)

RECURSIVE OverrunUpTo(_)
OverrunUpTo(k) == IF k = 0 THEN 0 ELSE Overrun(k) + OverrunUpTo(k - 1)

\* the sum of the overruns of the batches of a finished run
CumulativeOverrun == OverrunUpTo(ticks)

TotalTime == clock - started

\* C14 as claimed: a batch that takes longer than the second is followed by
\* no sleep, and at the end of the run the actual duration exceeds the
\* requested one by the sum of the overruns and is what duration_sec_actual
\* reports.
C14_ExcessIsCumulativeOverrun ==
    pc = "done" =>
        /\ TotalTime - duration_sec * TicksPerSec = CumulativeOverrun
        /\ summary_file[1].duration_sec_actual = Rat(TotalTime, TicksPerSec)

\* C14 as amended: a batch that takes longer than the second is followed by
\* no sleep; at the end of the run the actual duration is one second per
\* batch plus the sum of the overruns, is at least the requested duration,
\* exceeds it by exactly the sum of the overruns when duration_sec batches
\* ran, and is what duration_sec_actual reports, next to the requested one.
C14_OverrunAccounting ==
    /\ [][(pc = "sleep" /\ clock - sec_start >= TicksPerSec) =>
              (clock' = clock /\ pc' = "loop")]_vars
    /\ [](pc = "done" =>
            /\ TotalTime = ticks * TicksPerSec + CumulativeOverrun
            /\ TotalTime >= duration_sec * TicksPerSec
            /\ ticks = duration_sec =>
                  TotalTime - duration_sec * TicksPerSec = CumulativeOverrun
            /\ summary_file[1].duration_sec_actual =
                  Rat(TotalTime, TicksPerSec)
            /\ summary_file[1].duration_sec_requested = duration_sec)

C14_Witness ==
    /\ pc = "done"
    /\ duration_sec = 2
    /\ ticks = 2
    /\ BatchTime(1) = RequestTimeout
    /\ Overrun(1) > 0
    /\ Overrun(2) = 0
    /\ TotalTime = duration_sec * TicksPerSec + Overrun(1)
    /\ summary_file[1].duration_sec_actual = Rat(TotalTime, TicksPerSec)

\* C15: a run with a non-empty pool, batch size > 0 and duration > 0, in
\* which every request ends and every write to the raw file succeeds,
\* reaches its end with the raw file and the summary file both written,
\* whatever the requests ended in; and whenever the summary file exists the
\* raw file holds the header and the rows of every batch dispatched.
C15_ValidRunProducesBothArtifacts ==
    /\ (~InvalidConfig /\ pc = "start") ~>
          (/\ pc = "done"
           /\ exit_code = 0
           /\ {"raw_csv", "summary_json"} \subseteq fs
           /\ summary_file # <<>>)
    /\ []("summary_json" \in fs =>
            /\ "raw_csv" \in fs
            /\ issued = batch_size * ticks
            /\ Len(raw_rows) = 1 + issued
            /\ raw_rows = <<Header>> \o Rows(results)
            /\ summary_file[1].total_requests = issued)

C15_Witness ==
    /\ pc = "done"
    /\ {"raw_csv", "summary_json"} \subseteq fs
    /\ Len(results) = 4
    /\ \A i \in DOMAIN results : results[i].status = 0
    /\ summary_file[1].error_requests = 4
    /\ Len(raw_rows) = 5

IsSeparator(c) == c \in {Comma, Newline}

\* where the entries of the uid file start: at its beginning and after
\* every comma or newline
EntryStarts ==
    {i \in 1..(Len(text) + 1) : i = 1 \/ IsSeparator(text[i - 1])}

\* the entry that starts at i, up to the next comma or newline, trimmed
EntryAt(i) ==
    LET stops == {j \in i..Len(text) : IsSeparator(text[j])} \cup {Len(text) + 1}
        stop == CHOOSE j \in stops : \A k \in stops : j <= k
    IN  Join(Strip(SubSeq(text, i, stop - 1)))

\* where token tok is first seen in the uid file
FirstSeen(tok) ==
    LET at == {i \in EntryStarts : EntryAt(i) = tok}
    IN  CHOOSE i \in at : \A k \in at : i <= k

\* C16: the pool parse_uids_file returns holds exactly the trimmed non-empty
\* entries of the file, an entry ending at a comma or at a newline alike,
\* each once and in the order in which they are first seen; and nothing
\* that runs later (dispatcher, scheduler, summarize) changes the pool.
C16_PoolIsFirstSeenDistinctTokens ==
    /\ [](pc # "read" =>
            /\ Range(uids) = {EntryAt(i) : i \in EntryStarts} \ {""}
            /\ \A a, b \in DOMAIN uids : a # b => uids[a] # uids[b]
            /\ \A a, b \in DOMAIN uids :
                  a < b => FirstSeen(uids[a]) < FirstSeen(uids[b]))
    /\ [][pc # "read" => uids' = uids]_vars

C16_Witness ==
    /\ pc = "done"
    /\ text = <<"b", Newline, "a", Comma, "b">>
    /\ uids = <<"b", "a">>
    /\ results # <<>>

\* C17: every request issued gives exactly one outcome and none is issued
\* again: requests are issued only by the dispatch of a batch, batch_size at
\* a time, one per sampled uid; a task that has ended, in a response of any
\* status or in a failure, is not touched again; and between batches the
\* number of requests issued, the number of outcomes recorded (mirror and
\* raw file) and batch_size times the number of ticks are equal.
C17_NoRetries ==
    /\ [](pc \in {"loop", "summarize", "done"} =>
            /\ issued = Len(results)
            /\ issued = batch_size * ticks
            /\ Len(raw_rows) = 1 + issued)
    /\ [](pc = "record" =>
            /\ Len(batch_results) = Len(chosen)
            /\ \A i \in DOMAIN chosen : batch_results[i].uid = chosen[i])
    /\ [][issued' # issued =>
              (pc = "dispatch" /\ issued' = issued + batch_size)]_vars
    /\ [][(pc = "gather" /\ pc' = "gather") =>
              \A i \in DOMAIN done :
                  Finished(done[i]) => done'[i] = done[i]]_vars

C17_Witness ==
    /\ pc = "done"
    /\ ticks = 2
    /\ issued = 4
    /\ Len(results) = 4
    /\ \E i, j \in DOMAIN results :
          results[i].status = 0 /\ results[j].status = 503

\* C18: at every moment of the run the number of connections open at the
\* same time is at most max_connections.
C18_OpenConnectionsWithinLimit == OpenConnections(done) <= max_connections

TimedOut(t) ==
    /\ t.state = "returned"
    /\ t.kind = "raise"
    /\ t.status = 0
    /\ t.err = Str(TimeoutError)
    /\ t.lat = RequestTimeout

\* C19: the step in which the timeout of one request expires ends that
\* request alone, as an outcome with status 0, and leaves every other task
\* of the batch as it was; the tasks still running then go on to end by
\* themselves, and the batch returns for every task the outcome of what
\* happened to that task.
C19_TimeoutEndsOnlyItsRequest ==
    /\ [][(pc = "gather" /\ pc' = "gather") =>
              \A i \in DOMAIN done :
                  (~Finished(done[i]) /\ TimedOut(done'[i])) =>
                      \A j \in DOMAIN done \ {i} : done'[j] = done[j]]_vars
    /\ [](pc = "record" =>
            \A j \in DOMAIN done :
                /\ done[j].state = "returned"
                /\ batch_results[j].status = done[j].status
                /\ batch_results[j].latency_sec = done[j].lat
                /\ batch_results[j].error = done[j].err
                /\ TimedOut(done[j]) => batch_results[j].status = 0)
    /\ (/\ pc = "gather"
        /\ \E i \in DOMAIN done : TimedOut(done[i])
        /\ \E j \in DOMAIN done : ~Finished(done[j])) ~>
          (pc = "record" /\ \A j \in DOMAIN done : Finished(done[j]))

C19_Witness ==
    /\ pc = "gather"
    /\ batch_size = 2
    /\ TimedOut(done[1])
    /\ done[2].state = "open"

\* C20: when the raw file cannot be opened or a row cannot be appended the
\* run ends at once with a non-zero exit status: nothing more is issued or
\* written, no summary exists, and at no time does a summary count an
\* outcome, or the mirror of a continuing run hold one, that the raw file
\* lacks.
C20_SinkFailureAborts ==
    /\ [](pc = "aborted" =>
            /\ exit_code = 1
            /\ summary_file = <<>>
            /\ "summary_json" \notin fs)
    /\ [][pc = "aborted" =>
              (/\ pc' = "aborted"
               /\ issued' = issued
               /\ ticks' = ticks
               /\ raw_rows' = raw_rows
               /\ summary_file' = summary_file)]_vars
    /\ [](summary_file # <<>> =>
            summary_file[1].total_requests = Len(raw_rows) - 1)
    /\ [](pc \in {"loop", "dispatch", "gather", "sleep", "summarize", "done"} =>
            raw_rows = <<Header>> \o Rows(results))

C20_Witness ==
    /\ pc = "aborted"
    /\ duration_sec = 2
    /\ batch_size = 2
    /\ ticks = 1
    /\ Len(raw_rows) = 2
    /\ results = <<>>

\* a tick is completed: its batch has been written and mirrored
TickCompleted == pc \in {"sleep", "loop", "summarize", "done"}

\* C21: the raw file starts with the header row ts_utc, uid, url,
\* latency_sec, status, error; whenever a tick is completed it holds after
\* the header one row per request issued, row i made of the timestamp, uid,
\* url, latency (six decimals), status and error of outcome i of the mirror,
\* in that column order; and at the end of the run the file on disk has
\* these rows, as many as the summary's total_requests.
C21_RawFileMirrorsResults ==
    /\ "raw_csv" \in fs =>
          raw_rows[1] =
              <<"ts_utc", "uid", "url", "latency_sec", "status", "error">>
    /\ TickCompleted =>
          /\ Len(raw_rows) = 1 + issued
          /\ Len(results) = issued
          /\ \A i \in DOMAIN results :
                raw_rows[i + 1] =
                    <<results[i].ts_utc, results[i].uid, results[i].url,
                      Fmt6(results[i].latency_sec), results[i].status,
                      results[i].error>>
    /\ pc = "done" =>
          /\ disk_rows = raw_rows
          /\ Len(disk_rows) - 1 = summary_file[1].total_requests

C21_Witness ==
    /\ pc = "done"
    /\ Len(disk_rows) = 5
    /\ disk_rows[2][2] = "abc123"
    /\ disk_rows[2][3] = "https://jo1n.ir/s/abc123"
    /\ disk_rows[2][4] = "0.500000"
    /\ disk_rows[2][5] = 200
    /\ disk_rows[3][5] = 0
    /\ disk_rows[3][2] = "def456"

\* C22: once a tick's batch has been recorded, the header and every row
\* written so far are in the raw file on disk, so that a run stopped at any
\* later point leaves the record of all completed ticks.
C22_RecordedBatchesAreDurable ==
    (results # <<>> /\ (TickCompleted \/ pc \in {"interrupted", "killed"})) =>
        /\ Len(disk_rows) >= 1 + Len(results)
        /\ SubSeq(disk_rows, 1, 1 + Len(results)) = <<Header>> \o Rows(results)

\* C23: a run stopped by an interruption while it is in its loop has still
\* run the aggregator: a summary over the outcomes collected so far has
\* been written.
C23_StopStillSummarizes ==
    pc = "interrupted" =>
        /\ "summary_json" \in fs
        /\ summary_file # <<>>
        /\ summary_file[1].total_requests = Len(results)

\* C24: the sleep after a batch lasts max(0, one second - elapsed), elapsed
\* being the time since this tick's start: it is never negative, the tick
\* has lasted at least a second when it ends, a tick whose batch overran
\* the second ends without any sleep, and the sleep depends on nothing but
\* this tick's own elapsed time, so that an earlier overrun shortens no
\* later sleep; and no run dispatches more batches than its seconds.
C24_SleepIsRestOfSecond ==
    /\ [][pc = "sleep" /\ pc' # pc =>
            /\ pc' = "loop"
            /\ clock' - clock = Max2(0, TicksPerSec - (clock - sec_start))
            /\ clock' - clock >= 0
            /\ clock' - sec_start >= TicksPerSec
            /\ clock - sec_start >= TicksPerSec => clock' = clock
            /\ clock - sec_start < TicksPerSec =>
                  clock' = sec_start + TicksPerSec]_vars
    /\ [](ticks <= Max2(0, duration_sec) /\ issued <= batch_size * ticks)

\* after a first tick that overran, the second tick's batch took less than
\* a second and the tick has still lasted its whole second
C24_Witness ==
    /\ pc = "loop"
    /\ batch_size = 1
    /\ ticks = 2
    /\ Len(results) = 2
    /\ results[1].latency_sec > TicksPerSec
    /\ sec_start = started + results[1].latency_sec
    /\ results[2].latency_sec < TicksPerSec
    /\ clock = sec_start + TicksPerSec

\* the scheduler's state: Idle until the loop is entered (a rejected
\* configuration never leaves it), Running in the loop, Completed after it
Phase ==
    IF pc \in {"start", "setup", "failed"} THEN "Idle"
    ELSE IF Running THEN "Running"
    ELSE IF pc \in {"summarize", "done"} THEN "Completed"
    ELSE "Stopped"

\* C25: the scheduler is Idle, Running or Completed and changes state only
\* from Idle to Running and from Running to Completed.  On entering Running
\* the deadline is set to the start time plus the duration and never
\* changes afterwards.  A batch is dispatched only from an iteration that
\* read a time before the deadline; Running is left only at the head of the
\* loop at a time at or after the deadline; a batch in flight ends only by
\* all its requests ending, whatever the time, and is then recorded whole;
\* and once Completed nothing is dispatched or recorded any more.
C25_SchedulerStates ==
    /\ [](Phase \in {"Idle", "Running", "Completed"})
    /\ [][Phase' # Phase =>
            \/ /\ Phase = "Idle" /\ Phase' = "Running"
               /\ started' = clock
               /\ deadline' = clock + duration_sec * TicksPerSec
            \/ /\ Phase = "Running" /\ Phase' = "Completed"
               /\ pc = "loop"
               /\ clock >= deadline]_vars
    /\ [][Phase # "Idle" =>
            deadline' = deadline /\ started' = started]_vars
    /\ [](Phase # "Idle" => deadline = started + duration_sec * TicksPerSec)
    /\ [][pc = "loop" /\ pc' = "dispatch" => clock < deadline]_vars
    /\ [][issued' # issued =>
            /\ pc = "dispatch"
            /\ clock = sec_start
            /\ sec_start < deadline]_vars
    /\ [][pc = "gather" /\ pc' # pc =>
            /\ pc' = "record"
            /\ \A i \in DOMAIN done : Finished(done[i])
            /\ Len(batch_results') = batch_size]_vars
    /\ [][pc = "record" /\ pc' # pc =>
            /\ pc' = "sleep"
            /\ results' = results \o batch_results]_vars
    /\ [][Phase = "Completed" =>
            /\ Phase' = "Completed"
            /\ issued' = issued
            /\ ticks' = ticks
            /\ results' = results
            /\ raw_rows' = raw_rows]_vars

\* a finished run with two batches, the second dispatched before the
\* deadline and ended after it, and both recorded
C25_Witness ==
    /\ pc = "done"
    /\ ticks = 2
    /\ Len(results) = 2 * batch_size
    /\ results[Len(results)].ts_utc > deadline
    /\ results[Len(results)].ts_utc - results[Len(results)].latency_sec
           < deadline

\* a request of the current batch has not ended yet
InFlight == \E i \in DOMAIN done : ~Finished(done[i])

\* C26: requests are in flight only while the scheduler waits for its one
\* current batch; a batch is dispatched only when every request of the
\* batch before it has ended and every outcome dispatched so far is in the
\* raw file and in the mirror; and the raw file and the mirror change only
\* in the scheduler's own steps, with no request in flight.
C26_OneBatchAtATime ==
    /\ [](InFlight => pc = "gather" /\ Len(done) = batch_size)
    /\ [][issued' # issued =>
            /\ pc = "dispatch"
            /\ ~InFlight
            /\ issued' = issued + batch_size
            /\ Len(results) = issued
            /\ Len(raw_rows) = 1 + issued]_vars
    /\ [][(raw_rows' # raw_rows \/ results' # results) =>
            /\ pc \in {"setup", "record"}
            /\ ~InFlight
            /\ done' = done]_vars

\* the second batch is in flight, with the first one written and mirrored
C26_Witness ==
    /\ pc = "gather"
    /\ batch_size = 2
    /\ ticks = 2
    /\ issued = 4
    /\ Len(results) = 2
    /\ Len(raw_rows) = 3
    /\ done[1].state = "returned"
    /\ done[2].state = "open"

\* C27: the batch that run_second returns has one outcome per request, in
\* the order of the uids drawn; outcome i carries the uid drawn for request
\* i, the URL made of the base URL, "/s/" and that uid, and the latency,
\* status and error with which request i itself ended, in whatever order
\* the requests ended; the mirror keeps every outcome with the URL of its
\* own uid.
C27_OutcomeBelongsToItsRequest ==
    /\ pc = "record" =>
          /\ Len(batch_results) = Len(chosen)
          /\ Len(batch_results) = Len(done)
          /\ \A i \in DOMAIN batch_results :
                /\ batch_results[i].uid = chosen[i]
                /\ batch_results[i].url = "https://jo1n.ir/s/" \o chosen[i]
                /\ batch_results[i].latency_sec = done[i].lat
                /\ batch_results[i].status = done[i].status
                /\ batch_results[i].error = done[i].err
    /\ \A i \in DOMAIN results :
          /\ results[i].url = "https://jo1n.ir/s/" \o results[i].uid
          /\ \E j \in DOMAIN uids : uids[j] = results[i].uid

\* two requests that ended differently, each outcome with its own request
C27_Witness ==
    /\ pc = "record"
    /\ chosen = <<"abc123", "def456">>
    /\ done[1].kind = "raise"
    /\ done[1].lat = RequestTimeout
    /\ done[2].status = 200
    /\ batch_results[1].uid = "abc123"
    /\ batch_results[1].status = 0
    /\ batch_results[1].latency_sec = RequestTimeout
    /\ batch_results[2].url = "https://jo1n.ir/s/def456"
    /\ batch_results[2].status = 200
    /\ batch_results[2].latency_sec < RequestTimeout

\* C28: at the end of a run with a valid configuration and duration D > 0,
\* between 1 and D batches have been dispatched, total_requests is the batch
\* size times the number of batches, hence a positive multiple of the batch
\* size of at most batch size times D, and duration_sec_actual is at least
\* duration_sec_requested.
C28_BatchesWithinDuration ==
    (pc = "done" /\ duration_sec > 0) =>
        /\ 1 <= ticks
        /\ ticks <= duration_sec
        /\ summary_file[1].total_requests = batch_size * ticks
        /\ summary_file[1].total_requests > 0
        /\ summary_file[1].total_requests % batch_size = 0
        /\ summary_file[1].total_requests <= batch_size * duration_sec
        /\ summary_file[1].duration_sec_requested = duration_sec
        /\ summary_file[1].duration_sec_actual.den > 0
        /\ summary_file[1].duration_sec_actual.num >=
               summary_file[1].duration_sec_requested
                   * summary_file[1].duration_sec_actual.den

\* a run of three seconds whose batches overran: two batches, not three
C28_Witness ==
    /\ pc = "done"
    /\ duration_sec = 3
    /\ ticks = 2
    /\ summary_file[1].total_requests = 2 * batch_size
    /\ summary_file[1].duration_sec_actual = Num(3)

\* the rows process_csv goes through: all of them, or the first max_rows
ProcessedRows == IF max_rows # 0 THEN Min2(n_rows, max_rows) ELSE n_rows

\* C29: a call of call_openai_with_retry makes at most max_retries + 1 API
\* attempts.  Before every attempt but the first it has slept exactly one
\* backoff, each of more than 0 and at most 30 seconds.  It ends either at
\* its first successful attempt, with the answer of that attempt and no
\* attempt or sleep after it, or after max_retries + 1 failed attempts with
\* the last error and only max_retries sleeps.  process_csv makes that
\* error the "ERROR: ..." answer of the row, writes one JSONL record per
\* row gone through, in row order, and goes on with the following rows.
C29_RetryIsBounded ==
    /\ [](api_calls <= max_retries + 1)
    /\ [](\A i \in DOMAIN sleeps :
            /\ sleeps[i] > 0
            /\ sleeps[i] <= 30 * TenthsPerSec
            /\ sleeps[i] >= Min2(2 ^ i, 30) * TenthsPerSec)
    /\ [](pc = "csv_call" => Len(sleeps) = api_calls /\ attempt = api_calls)
    /\ [](pc = "csv_write" =>
            \/ /\ api_calls = attempt + 1
               /\ Len(sleeps) = attempt
               /\ answer \in {"answer", ""}
            \/ /\ api_calls = max_retries + 1
               /\ attempt = max_retries + 1
               /\ Len(sleeps) = max_retries
               /\ answer = "ERROR: " \o last_error
               /\ last_error # "")
    /\ [][pc = "csv_write" =>
            /\ api_calls' = api_calls
            /\ sleeps' = sleeps
            /\ jsonl_file' =
                  Append(jsonl_file,
                         [row_index |-> row_idx, openai_result |-> answer])
            /\ pc' = "csv_row"]_vars
    /\ [][jsonl_file' # jsonl_file => pc = "csv_write"]_vars
    /\ [](/\ Len(jsonl_file) =
                 (IF pc \in {"csv_call", "csv_write"}
                  THEN row_idx - 1 ELSE row_idx)
          /\ \A i \in DOMAIN jsonl_file : jsonl_file[i].row_index = i)
    /\ [](pc = "csv_done" => Len(jsonl_file) = ProcessedRows)

\* a call with the default five retries has failed six times, with the
\* fifth backoff capped, and the row after it has got its answer
C29_Witness ==
    /\ pc = "csv_done"
    /\ max_retries = 5
    /\ Len(jsonl_file) = 2
    /\ jsonl_file[1].openai_result = "ERROR: Rate limit reached"
    /\ jsonl_file[2].openai_result = "answer"
    /\ api_calls = 3
    /\ Len(sleeps) = 2

\* the time of day of a datetime, in seconds
TimeOfDay(dt) == dt % 86400

\* C30: generate_random_datetimes returns exactly num_datetimes datetimes,
\* each with a time of day from start_hour:00:00 on and before
\* end_hour:00:00, in non-decreasing order.
C30_ReturnsNDatetimesInOrder ==
    pc = "gen_done" =>
        /\ Len(call_out[1]) = num_datetimes
        /\ \A i \in DOMAIN call_out[1] :
              /\ TimeOfDay(call_out[1][i]) >= start_hour * 3600
              /\ TimeOfDay(call_out[1][i]) < end_hour * 3600
        /\ IsSorted(call_out[1])

\* what the returned list does satisfy: whole days only, with the times of
\* day in range and in order
GenWholeDaysInOrder ==
    pc = "gen_done" =>
        /\ Len(call_out[1]) =
              (num_datetimes \div num_times_per_day) * num_times_per_day
        /\ \A i \in DOMAIN call_out[1] :
              /\ TimeOfDay(call_out[1][i]) >= start_hour * 3600
              /\ TimeOfDay(call_out[1][i]) < end_hour * 3600
        /\ IsSorted(call_out[1])

====
